---- MODULE Spec2Model ----
(***************************************************************************)
(* FlashCardsApp: the CSV codec, the Deck (React state `cards`), the       *)
(* concurrent ingestion of files and URLs, and the localStorage snapshot.  *)
(*                                                                         *)
(* A JavaScript string is a sequence of one-character strings.             *)
(* React state: `cards` is the committed value of useState; a call of      *)
(* setCards is queued in `updates` and applied, in order, by the next      *)
(* render; the save effect (useEffect on [cards]) runs after the commit    *)
(* and before the next render.                                             *)
(*                                                                         *)
(* Spec is the application started with no stored item; SpecBoot starts it *)
(* on every stored item that holds no entry; SpecCodec draws a document,   *)
(* two fields or a Deck and applies parseCSV, splitCSVLine, the export and *)
(* the ingestion of the export to it.                                      *)
(***************************************************************************)
EXTENDS Integers, Sequences, FiniteSets, Bags, TLC

\* ------------------------------------------------------------------ bounds
MaxReads == 2      \* reads (files and URLs) started over a whole behaviour
MaxBatch == 2      \* files in one file selection
MaxClock == 1      \* largest reading of Date.now()
MaxQueue == 2      \* a confirmed clear waits while this many updates are queued
MaxText == 5       \* codec: characters of a document
MaxField == 2      \* codec: characters of a field value
MaxTitle == 2      \* codec: characters of a Separator title

\* ------------------------------------------------------------------- codec
\* U+000B, the vertical tab: TLA+ has no escape for it, so the string holds
\* the character itself
VerticalTab == ""

\* characters String.prototype.trim removes: the WhiteSpace and LineTerminator
\* code points of ECMAScript below U+0080, which are space, tab, line feed,
\* vertical tab, form feed and carriage return. trim removes as well U+00A0,
\* U+1680, U+2000..U+200A, U+2028, U+2029, U+202F, U+205F, U+3000 and U+FEFF;
\* a string of this module holds ASCII characters only, so no input of the
\* module holds one of them.
WhiteSpace == {" ", "\t", "\n", VerticalTab, "\f", "\r"}

RECURSIVE trimStart(_)
trimStart(s) ==
  IF s # <<>> /\ Head(s) \in WhiteSpace THEN trimStart(Tail(s)) ELSE s

RECURSIVE trimEnd(_)
trimEnd(s) ==
  IF s # <<>> /\ s[Len(s)] \in WhiteSpace
  THEN trimEnd(SubSeq(s, 1, Len(s) - 1)) ELSE s

trim(s) == trimEnd(trimStart(s))

\* text.split(/\r?\n/), scanning from position i with the current piece cur
RECURSIVE splitLinesFrom(_, _, _)
splitLinesFrom(text, i, cur) ==
  IF i > Len(text) THEN <<cur>>
  ELSE IF text[i] = "\n"
       THEN <<cur>> \o splitLinesFrom(text, i + 1, <<>>)
  ELSE IF text[i] = "\r" /\ i < Len(text) /\ text[i + 1] = "\n"
       THEN <<cur>> \o splitLinesFrom(text, i + 2, <<>>)
  ELSE splitLinesFrom(text, i + 1, Append(cur, text[i]))

splitLines(text) == splitLinesFrom(text, 1, <<>>)

\* the for loop of splitCSVLine: i is the 1-based position
\* mutant of scanCSVLine: a comma splits inside quotes too
RECURSIVE scanCSVLineSplitsInQuotes(_, _, _, _, _)
scanCSVLineSplitsInQuotes(line, i, cur, inQuotes, res) ==
  IF i > Len(line) THEN Append(res, cur)
  ELSE LET ch == line[i] IN
    IF ch = "\""
    THEN IF inQuotes /\ i + 1 <= Len(line) /\ line[i + 1] = "\""
         THEN scanCSVLineSplitsInQuotes(line, i + 2, Append(cur, "\""),
                                        inQuotes, res)
         ELSE scanCSVLineSplitsInQuotes(line, i + 1, cur, ~inQuotes, res)
    ELSE IF ch = ","
         THEN scanCSVLineSplitsInQuotes(line, i + 1, <<>>, inQuotes,
                                        Append(res, cur))
         ELSE scanCSVLineSplitsInQuotes(line, i + 1, Append(cur, ch),
                                        inQuotes, res)

RECURSIVE scanCSVLine(_, _, _, _, _)
scanCSVLine(line, i, cur, inQuotes, res) ==
  IF i > Len(line) THEN Append(res, cur)
  ELSE LET ch == line[i] IN
    IF ch = "\""
    THEN IF inQuotes /\ i + 1 <= Len(line) /\ line[i + 1] = "\""
         THEN scanCSVLine(line, i + 2, Append(cur, "\""), inQuotes, res)
         ELSE scanCSVLine(line, i + 1, cur, ~inQuotes, res)
    ELSE IF ch = "," /\ ~inQuotes
         THEN scanCSVLine(line, i + 1, <<>>, inQuotes, Append(res, cur))
         ELSE scanCSVLine(line, i + 1, Append(cur, ch), inQuotes, res)

splitCSVLine(line) == scanCSVLine(line, 1, <<>>, FALSE, <<>>)

\* (cols[k] || ''), k counted from 1
colOrEmpty(cols, k) == IF k <= Len(cols) THEN cols[k] ELSE <<>>

\* the for loop of parseCSV over the trimmed rows
\* mutant of parseRows: no test of q || a
RECURSIVE parseRowsKeepsEmpty(_)
parseRowsKeepsEmpty(rows) ==
  IF rows = <<>> THEN <<>>
  ELSE LET line == Head(rows)
           rest == parseRowsKeepsEmpty(Tail(rows))
       IN IF line = <<>> THEN rest
          ELSE LET cols == splitCSVLine(line)
                   q == trim(colOrEmpty(cols, 1))
                   a == trim(colOrEmpty(cols, 2))
               IN <<[question |-> q, answer |-> a]>> \o rest

\* mutant of parseRows: the answer is the last column
RECURSIVE parseRowsLastColumn(_)
parseRowsLastColumn(rows) ==
  IF rows = <<>> THEN <<>>
  ELSE LET line == Head(rows)
           rest == parseRowsLastColumn(Tail(rows))
       IN IF line = <<>> THEN rest
          ELSE LET cols == splitCSVLine(line)
                   q == trim(colOrEmpty(cols, 1))
                   a == trim(IF Len(cols) >= 2 THEN cols[Len(cols)] ELSE <<>>)
               IN IF q # <<>> \/ a # <<>>
                  THEN <<[question |-> q, answer |-> a]>> \o rest
                  ELSE rest

\* mutant of parseRows: a row of one field ends the document
RECURSIVE parseRowsStopsAtOneField(_)
parseRowsStopsAtOneField(rows) ==
  IF rows = <<>> THEN <<>>
  ELSE LET line == Head(rows)
           rest == parseRowsStopsAtOneField(Tail(rows))
       IN IF line = <<>> THEN rest
          ELSE LET cols == splitCSVLine(line)
                   q == trim(colOrEmpty(cols, 1))
                   a == trim(colOrEmpty(cols, 2))
               IN IF Len(cols) < 2 THEN <<>>
                  ELSE IF q # <<>> \/ a # <<>>
                  THEN <<[question |-> q, answer |-> a]>> \o rest
                  ELSE rest

RECURSIVE parseRows(_)
parseRows(rows) ==
  IF rows = <<>> THEN <<>>
  ELSE LET line == Head(rows)
           rest == parseRows(Tail(rows))
       IN IF line = <<>> THEN rest
          ELSE LET cols == splitCSVLine(line)
                   q == trim(colOrEmpty(cols, 1))
                   a == trim(colOrEmpty(cols, 2))
               IN IF q # <<>> \/ a # <<>>
                  THEN <<[question |-> q, answer |-> a]>> \o rest
                  ELSE rest

parseCSV(text) ==
  LET lines == splitLines(text)
  IN parseRows([i \in 1..Len(lines) |-> trim(lines[i])])

\* ------------------------------------------------------------------ inputs
\* the files the user can select: name and content
FileA == [name |-> <<"a">>,
          text |-> <<"\"", "x", ",", "\"", ",", "y", "\r", "\n", "\r", "\n", " ", "z">>]
FileE == [name |-> <<"e">>, text |-> <<" ", "\n", ",">>]
Files == {FileA, FileE}

\* the file selections handed to handleFiles
FileLists == UNION {[1..n -> Files] : n \in 1..MaxBatch}

\* the URL the user can enter, and the body a successful fetch returns; its
\* last segment is the name of FileA. urlName is applied to every URL of at
\* most MaxText characters in SpecCodec.
UrlA == <<"h", "/", "a">>
Urls == {UrlA}
UrlBody == <<"x", ",", "u">>
FetchOutcomes == {"ok", "notok", "error"}

\* what `await res.text()` can give: the body, or a rejection
BodyOutcomes == {"ok", "error"}

\* --------------------------------------------------------------- the Deck
\* `sep-${Date.now()}-${Math.random()}`; r stands for the value of that call
\* of Math.random(), taken distinct from the value of every other call
sepId(t, r) == [kind |-> "sep", t |-> t, r |-> r]

\* `${name}-${idx}-${Date.now()}`
cardId(name, idx, t) == [name |-> name, idx |-> idx, t |-> t]

separatorEntry(name, t, r) ==
  [type |-> "separator", title |-> name, id |-> sepId(t, r)]

cardEntry(name, p, idx, t) ==
  [type |-> "card", question |-> p.question, answer |-> p.answer,
   id |-> cardId(name, idx, t)]

\* name = url.split('/').pop() || url
RECURSIVE lastSegment(_)
lastSegment(s) ==
  IF s = <<>> \/ s[Len(s)] = "/" THEN <<>>
  ELSE Append(lastSegment(SubSeq(s, 1, Len(s) - 1)), s[Len(s)])

\* mutant of urlName: no || url
urlNameNoFallback(url) == lastSegment(url)

urlName(url) == IF lastSegment(url) # <<>> THEN lastSegment(url) ELSE url

\* ---------------------------------------------------------------- snapshot
\* what localStorage.getItem(STORAGE_KEY) returns: null, or the stored text.
\* JSON text of an array is the sequence of its objects, each the sequence of
\* its key/value pairs in the order JSON.stringify writes them.
NoItem == [kind |-> "null", items |-> <<>>]

encodeEntry(e) ==
  IF e.type = "separator"
  THEN << <<"type", e.type>>, <<"title", e.title>>, <<"id", e.id>> >>
  ELSE << <<"type", e.type>>, <<"question", e.question>>,
          <<"answer", e.answer>>, <<"id", e.id>> >>

JSONstringify(cs) ==
  [kind |-> "array", items |-> [i \in 1..Len(cs) |-> encodeEntry(cs[i])]]

member(obj, key) == obj[CHOOSE j \in 1..Len(obj) : obj[j][1] = key][2]

decodeEntry(obj) ==
  IF member(obj, "type") = "separator"
  THEN [type |-> "separator", title |-> member(obj, "title"),
        id |-> member(obj, "id")]
  ELSE [type |-> "card", question |-> member(obj, "question"),
        answer |-> member(obj, "answer"), id |-> member(obj, "id")]

JSONparse(saved) == [i \in 1..Len(saved.items) |-> decodeEntry(saved.items[i])]

\* items another writer can leave under STORAGE_KEY: the empty string, text
\* that is not JSON, the JSON text of a value that is no array, and "[]"
EmptyText == [kind |-> "empty", items |-> <<>>]
Garbage == [kind |-> "garbage", items |-> <<>>]
NonArray == [kind |-> "object", items |-> <<>>]
EmptyArray == [kind |-> "array", items |-> <<>>]
BootItems == {NoItem, EmptyText, Garbage, NonArray, EmptyArray}

\* JSON.parse throws a SyntaxError
JSONparseThrows(saved) == saved.kind = "garbage"

\* ------------------------------------------------------------------ export
\* s.includes(c)
includes(s, c) == \E i \in 1..Len(s) : s[i] = c

\* s.replace(/"/g, '""')
RECURSIVE doubleQuotes(_)
doubleQuotes(s) ==
  IF s = <<>> THEN <<>>
  ELSE (IF Head(s) = "\"" THEN <<"\"", "\"">> ELSE <<Head(s)>>)
         \o doubleQuotes(Tail(s))

\* mutants of exportField: inner quotes not doubled; no field is quoted
exportFieldNoDoubling(s) ==
  IF includes(s, ",") \/ includes(s, "\"") \/ includes(s, "\n")
  THEN <<"\"">> \o s \o <<"\"">>
  ELSE s

exportFieldNoQuoting(s) == s

\* the function exportAllAsCSV maps over the fields of a row
exportField(s) ==
  IF includes(s, ",") \/ includes(s, "\"") \/ includes(s, "\n")
  THEN <<"\"">> \o doubleQuotes(s) \o <<"\"">>
  ELSE s

\* Array.prototype.join of strings
RECURSIVE join(_, _)
join(parts, sep) ==
  IF parts = <<>> THEN <<>>
  ELSE IF Len(parts) = 1 THEN parts[1]
  ELSE parts[1] \o sep \o join(Tail(parts), sep)

\* mutant of exportRow: the title without "#"
exportRowNoHash(c) ==
  IF c.type = "separator" THEN <<c.title>> ELSE <<c.question, c.answer>>

\* the row pushed for one entry
exportRow(c) ==
  IF c.type = "separator" THEN << <<"#">> \o c.title >>
  ELSE <<c.question, c.answer>>

\* mutant of exportAllAsCSV: a line break after every row
exportAllAsCSVBreakAfterRows(cs) ==
  LET rows == [i \in 1..Len(cs) |-> exportRow(cs[i])]
      line(r) == join([k \in 1..Len(r) |-> exportField(r[k])], <<",">>)
  IN join([i \in 1..Len(rows) |-> line(rows[i]) \o <<"\n">>], <<>>)

\* the text exportAllAsCSV puts in the downloaded file
exportAllAsCSV(cs) ==
  LET rows == [i \in 1..Len(cs) |-> exportRow(cs[i])]
      line(r) == join([k \in 1..Len(r) |-> exportField(r[k])], <<",">>)
  IN join([i \in 1..Len(rows) |-> line(rows[i])], <<"\n">>)

\* codec: no input drawn
NoInput == [kind |-> "none"]

\* ------------------------------------------------------------------- state
VARIABLES
  cards,          \* committed value of the React state `cards`: the Deck
  updates,        \* calls of setCards not yet rendered, oldest first
  effectPending,  \* the save effect of the last commit has not run yet
  storage,        \* localStorage item STORAGE_KEY
  inflight,       \* reads started and not completed (FileReader, fetch)
  now,            \* the last reading of Date.now()
  started,        \* number of reads started so far
  phase,          \* "stopped", "mount" (first commit done, effects not run),
                  \* "hydrate" (snapshot queued by the load effect), "save"
                  \* (snapshot rendered, its save effect not run), "ready"
  alerts,         \* calls of alert() in this process
  op,             \* the step taken last
  log,            \* history: sources completed since the Deck was last
                  \* replaced, in completion order
  baseDeck,       \* history: the value the Deck was last replaced with
  touched,        \* history: a handler has run in this process
  bootStorage,    \* history, kept until a handler runs: the storage item
                  \* when this process started
  stopDeck,       \* history, kept until a handler runs: the Deck when the
                  \* previous process stopped, if fully saved (else <<>>)
  writeOk,        \* history: the last save effect met no storage failure
  batch,          \* history, kept until another step than the save effect:
                  \* number of updates the last render applied
  uncaught,       \* an error left an effect or a handler of this process
  savedDeck,      \* history: the Deck as of the last storage write or
                  \* removal made for a change of the Deck
  cin,            \* codec: the input drawn
  cout            \* codec: the results computed from it so far;
                  \* application: what the last step handed to the download

vars == <<cards, updates, effectPending, storage, inflight, now, started,
          phase, alerts, op, log, baseDeck, touched, bootStorage, stopDeck,
          writeOk, batch, uncaught, savedDeck, cin, cout>>

history == <<log, baseDeck, touched, bootStorage, stopDeck, writeOk>>

Running == phase \in {"hydrate", "save", "ready"}

\* history: a handler runs
Touch == touched' = TRUE /\ bootStorage' = NoItem /\ stopDeck' = <<>>

\* ------------------------------------------------------- setCards updaters
\* Date.now() is called once for the Separator and once more for each Card
\* of a block, in that order; ts holds the readings of these calls.

\* the readings n calls in a row can get, none before lo
RECURSIVE clockReadings(_, _)
clockReadings(lo, n) ==
  IF n = 0 THEN {<<>>}
  ELSE UNION {{<<t>> \o rest : rest \in clockReadings(t, n - 1)} :
                t \in lo..MaxClock}

\* the readings of n calls during which the clock stays at t
constantClock(t, n) == [i \in 1..n |-> t]

\* the number of Date.now() calls of one updater, and of a queue of them
dateNowCalls(u) == IF u.op = "set" THEN 0 ELSE 1 + Len(u.parsed)

RECURSIVE dateNowCallsOf(_)
dateNowCallsOf(q) ==
  IF q = <<>> THEN 0 ELSE dateNowCalls(Head(q)) + dateNowCallsOf(Tail(q))

\* mutants of handleFilesUpdater: the block appended to the captured `cards`
\* instead of prev; the separator after its cards; the block put first
handleFilesUpdaterStale(prev, name, parsed, ts, r) ==
  cards \o <<separatorEntry(name, ts[1], r)>>
        \o [i \in 1..Len(parsed) |-> cardEntry(name, parsed[i], i - 1, ts[i + 1])]

handleFilesUpdaterSepLast(prev, name, parsed, ts, r) ==
  prev \o [i \in 1..Len(parsed) |-> cardEntry(name, parsed[i], i - 1, ts[i + 1])]
       \o <<separatorEntry(name, ts[1], r)>>

handleFilesUpdaterFirst(prev, name, parsed, ts, r) ==
  <<separatorEntry(name, ts[1], r)>>
    \o [i \in 1..Len(parsed) |-> cardEntry(name, parsed[i], i - 1, ts[i + 1])]
    \o prev

\* prev => [...prev, separator, ...parsed.map(card)] of reader.onload
handleFilesUpdater(prev, name, parsed, ts, r) ==
  prev \o <<separatorEntry(name, ts[1], r)>>
       \o [i \in 1..Len(parsed) |-> cardEntry(name, parsed[i], i - 1, ts[i + 1])]

\* mutant of loadFromUrlUpdater: the cards without their separator
loadFromUrlUpdaterNoSeparator(prev, name, parsed, ts, r) ==
  prev \o [i \in 1..Len(parsed) |-> cardEntry(name, parsed[i], i - 1, ts[i + 1])]

\* mutant of loadFromUrlUpdater: the block replaces the Deck
loadFromUrlUpdaterReplaces(prev, name, parsed, ts, r) ==
  <<separatorEntry(name, ts[1], r)>>
    \o [i \in 1..Len(parsed) |-> cardEntry(name, parsed[i], i - 1, ts[i + 1])]

\* prev => [...prev, separator, ...parsed.map(card)] of loadFromUrl
loadFromUrlUpdater(prev, name, parsed, ts, r) ==
  prev \o <<separatorEntry(name, ts[1], r)>>
       \o [i \in 1..Len(parsed) |-> cardEntry(name, parsed[i], i - 1, ts[i + 1])]

\* one queued setCards call; ts holds the readings of its Date.now() calls
applyUpdate(prev, u, ts) ==
  CASE u.op = "set" -> u.value
    [] u.op = "file" -> handleFilesUpdater(prev, u.name, u.parsed, ts, u.seq)
    [] u.op = "url" -> loadFromUrlUpdater(prev, u.name, u.parsed, ts, u.seq)

\* the render applies the queued updates in order to the latest value; each
\* updater takes the next readings of ts
RECURSIVE processUpdates(_, _, _)
processUpdates(prev, q, ts) ==
  IF q = <<>> THEN prev
  ELSE LET n == dateNowCalls(Head(q))
       IN processUpdates(applyUpdate(prev, Head(q), SubSeq(ts, 1, n)),
                         Tail(q), SubSeq(ts, n + 1, Len(ts)))

\* ------------------------------------------------------------ codec inputs
\* all strings of at most n characters of the set chars
StringsUpTo(chars, n) == UNION {[1..k -> chars] : k \in 0..n}

DocChars == {"a", ",", "\"", " ", "\n", "\r"}
FieldChars == {"a", ",", "\"", " ", "\n", "\r", "\f"}
TitleChars == {"t", ",", "\"", " ", "\n", "\r", "\f"}
FeedChars == {"a", ",", "\f", VerticalTab, "\n"}
LineChars == {"a", ",", "\"", " "}
UrlChars == {"h", "/", "."}

\* the document of the example: A,B and "C, D","E""F" on two lines
ExampleLine ==
  <<"\"", "C", ",", " ", "D", "\"", ",", "\"", "E", "\"", "\"", "F", "\"">>
ExampleDoc == <<"A", ",", "B", "\n">> \o ExampleLine

\* the name of the source that holds an export
ExportName == <<"x">>

\* the Deck of the example: Separator("file1.csv"), Card("Q", "A")
ExampleTitle == <<"f", "i", "l", "e", "1", ".", "c", "s", "v">>
ExampleCards ==
  <<cardEntry(ExampleTitle, [question |-> <<"Q">>, answer |-> <<"A">>], 0, 0)>>

\* what follows the first Separator of an input Deck: entries appended by
\* ingestions
DeckTails ==
  { <<>>,
    ExampleCards,
    Tail(handleFilesUpdater(<<>>, FileA.name, parseCSV(FileA.text),
                       constantClock(0, 1 + Len(parseCSV(FileA.text))), 1)),
    Tail(loadFromUrlUpdater(
           handleFilesUpdater(<<>>, FileA.name, parseCSV(FileA.text),
                       constantClock(0, 1 + Len(parseCSV(FileA.text))), 1),
           urlName(UrlA), parseCSV(UrlBody),
           constantClock(0, 1 + Len(parseCSV(UrlBody))), 2)) }

\* the inputs of the codec: a document, a line, a URL, the two fields of a
\* Card, a Deck
CodecInputs(nText, nField, nTitle) ==
  {[kind |-> "doc", text |-> t] :
      t \in StringsUpTo(DocChars, nText) \cup StringsUpTo(FeedChars, nText)
             \cup {ExampleDoc}}
    \cup {[kind |-> "line", text |-> t] :
              t \in StringsUpTo(LineChars, nText) \cup {ExampleLine}}
    \cup {[kind |-> "url", text |-> t] : t \in StringsUpTo(UrlChars, nText)}
    \cup {[kind |-> "fields", question |-> q, answer |-> a] :
              q \in StringsUpTo(FieldChars, nField),
              a \in StringsUpTo(FieldChars, nField)}
    \cup {[kind |-> "deck", title |-> t, tail |-> d] :
              t \in StringsUpTo(TitleChars, nTitle) \cup {ExampleTitle},
              d \in DeckTails}

\* ----------------------------------------------------------------- effects
\* mutant of loadEffect: no test of parsed.length
loadEffectAnyArray(saved) ==
  IF saved.kind = "array"
  THEN <<[op |-> "set", value |-> JSONparse(saved)]>>
  ELSE <<>>

\* load effect: the setCards call it makes, if any
loadEffect(saved) ==
  IF saved.kind = "array" /\ Len(saved.items) > 0
  THEN <<[op |-> "set", value |-> JSONparse(saved)]>>
  ELSE <<>>

\* the whole body of the load effect is inside try ... catch
loadEffectCatches == TRUE

\* an error leaves the load effect
loadEffectUncaught(saved) == JSONparseThrows(saved) /\ ~loadEffectCatches

\* mutant of saveEffect: no removeItem for an empty Deck
saveEffectNoRemove(cs, item, ok) ==
  IF Len(cs) > 0 /\ ok THEN JSONstringify(cs) ELSE item

\* mutant of saveEffect: setItem for the empty Deck too
saveEffectWritesEmpty(cs, item, ok) ==
  IF ok THEN JSONstringify(cs) ELSE item

\* mutant of saveEffect: a delta is written, the entries from the last
\* Separator on
saveEffectLastBlock(cs, item, ok) ==
  IF Len(cs) > 0
  THEN IF ok
       THEN LET seps == {i \in DOMAIN cs : cs[i].type = "separator"}
                from == IF seps = {} THEN 1
                        ELSE CHOOSE i \in seps : \A j \in seps : j <= i
            IN JSONstringify(SubSeq(cs, from, Len(cs)))
       ELSE item
  ELSE NoItem

\* save effect: the storage item it leaves; ok = setItem does not throw
saveEffect(cs, item, ok) ==
  IF Len(cs) > 0
  THEN IF ok THEN JSONstringify(cs) ELSE item
  ELSE NoItem

\* localStorage.setItem is called inside try ... catch
saveEffectCatches == TRUE

\* an error leaves the save effect; ok = setItem does not throw
saveEffectUncaught(cs, ok) == Len(cs) > 0 /\ ~ok /\ ~saveEffectCatches

\* ------------------------------------------------------------------- steps
Init ==
  /\ cards = <<>>
  /\ updates = <<>>
  /\ effectPending = FALSE
  /\ storage = NoItem
  /\ inflight = {}
  /\ now = 0
  /\ started = 0
  /\ phase = "mount"
  /\ alerts = 0
  /\ op = "Start"
  /\ log = <<>>
  /\ baseDeck = <<>>
  /\ touched = FALSE
  /\ bootStorage = NoItem
  /\ stopDeck = <<>>
  /\ writeOk = TRUE
  /\ batch = 0
  /\ uncaught = FALSE
  /\ savedDeck = <<>>
  /\ cin = NoInput
  /\ cout = <<>>

\* the two effects of the first commit run one after the other, with
\* cards = [] in the closure of the save effect
MountEffects ==
  /\ phase = "mount"
  /\ updates' = loadEffect(storage)
  /\ storage' = saveEffect(cards, storage, TRUE)
  /\ phase' = IF loadEffect(storage) # <<>> THEN "hydrate" ELSE "ready"
  /\ baseDeck' = IF loadEffect(storage) # <<>> THEN JSONparse(storage) ELSE <<>>
  /\ uncaught' = loadEffectUncaught(storage)
  /\ op' = "MountEffects"
  /\ UNCHANGED <<cards, effectPending, inflight, now, started, alerts, log,
                 touched, bootStorage, stopDeck, writeOk>>
  /\ batch' = 0
  /\ cout' = <<>>
  /\ UNCHANGED <<savedDeck, cin>>

\* a render: React calls the queued updaters in order, each on the result
\* of the one before; every Date.now() call they make gets its own reading,
\* ts in call order, none earlier than the one before. Then the commit
\* schedules the save effect.
Render(ts) ==
  /\ Running
  /\ updates # <<>>
  /\ ~effectPending
  /\ Len(ts) = dateNowCallsOf(updates)
  /\ now' = (IF ts = <<>> THEN now ELSE ts[Len(ts)])
  /\ cards' = processUpdates(cards, updates, ts)
  /\ updates' = <<>>
  /\ effectPending' = TRUE
  /\ phase' = IF phase = "hydrate" THEN "save" ELSE phase
  /\ batch' = Len(updates)
  /\ cout' = <<>>
  /\ UNCHANGED <<uncaught, savedDeck, cin>>
  /\ op' = "Render"
  /\ UNCHANGED <<storage, inflight, started, alerts, log, baseDeck,
                 touched, bootStorage, stopDeck, writeOk>>

SaveEffect(ok) ==
  /\ Running
  /\ effectPending
  /\ storage' = saveEffect(cards, storage, ok)
  /\ effectPending' = FALSE
  /\ writeOk' = (Len(cards) = 0 \/ ok)
  /\ phase' = IF phase = "save" THEN "ready" ELSE phase
  /\ op' = IF Len(cards) = 0 \/ ok THEN "SaveEffect" ELSE "SaveEffect:throws"
  /\ UNCHANGED <<cards, updates, inflight, now, started, alerts, log,
                 baseDeck, touched, bootStorage, stopDeck>>
  /\ UNCHANGED batch
  /\ uncaught' = (uncaught \/ saveEffectUncaught(cards, ok))
  /\ savedDeck' = IF Len(cards) = 0 \/ ok THEN cards ELSE savedDeck
  /\ cout' = <<>>
  /\ UNCHANGED cin

\* handleFiles: one FileReader per selected file, all started at once
handleFiles(fileList) ==
  /\ Running
  /\ started + Len(fileList) <= MaxReads
  /\ inflight' = inflight \cup
       {[seq |-> started + i, kind |-> "file", src |-> fileList[i].name,
         text |-> fileList[i].text] : i \in 1..Len(fileList)}
  /\ started' = started + Len(fileList)
  /\ Touch
  /\ op' = "handleFiles"
  /\ UNCHANGED <<cards, updates, effectPending, storage, now, phase, alerts,
                 log, baseDeck, writeOk>>
  /\ batch' = 0
  /\ cout' = <<>>
  /\ UNCHANGED <<uncaught, savedDeck, cin>>

\* mutant of readerOnload: the block of a read that completes while a read
\* started before it is in flight is not appended
readerOnloadAfterEarlier(rd) ==
  /\ Running
  /\ rd.kind = "file"
  /\ inflight' = inflight \ {rd}
  /\ updates' = IF \E other \in inflight : other.seq < rd.seq THEN updates
                ELSE Append(updates, [op |-> "file", name |-> rd.src,
                                 parsed |-> parseCSV(rd.text), seq |-> rd.seq])
  /\ log' = Append(log, [kind |-> "file", src |-> rd.src, text |-> rd.text])
  /\ op' = "readerOnload"
  /\ UNCHANGED <<cards, effectPending, storage, now, started, phase, alerts,
                 baseDeck, touched, bootStorage, stopDeck, writeOk>>
  /\ batch' = 0
  /\ cout' = <<>>
  /\ UNCHANGED <<uncaught, savedDeck, cin>>

\* reader.onload of one file
readerOnload(rd) ==
  /\ Running
  /\ rd.kind = "file"
  /\ inflight' = inflight \ {rd}
  /\ updates' = Append(updates, [op |-> "file", name |-> rd.src,
                                 parsed |-> parseCSV(rd.text), seq |-> rd.seq])
  /\ log' = Append(log, [kind |-> "file", src |-> rd.src, text |-> rd.text])
  /\ op' = "readerOnload"
  /\ UNCHANGED <<cards, effectPending, storage, now, started, phase, alerts,
                 baseDeck, touched, bootStorage, stopDeck, writeOk>>
  /\ batch' = 0
  /\ cout' = <<>>
  /\ UNCHANGED <<uncaught, savedDeck, cin>>

\* the read of one file fails: the reader has no onerror handler
readerError(rd) ==
  /\ Running
  /\ rd.kind = "file"
  /\ inflight' = inflight \ {rd}
  /\ op' = "readerError"
  /\ UNCHANGED <<cards, updates, effectPending, storage, now, started, phase,
                 alerts>>
  /\ UNCHANGED history
  /\ batch' = 0
  /\ cout' = <<>>
  /\ UNCHANGED <<uncaught, savedDeck, cin>>

\* loadFromUrl up to its first await
loadFromUrl(url) ==
  /\ Running
  /\ started + 1 <= MaxReads
  /\ inflight' = inflight \cup
       {[seq |-> started + 1, kind |-> "url", src |-> url, text |-> <<>>]}
  /\ started' = started + 1
  /\ Touch
  /\ op' = "loadFromUrl"
  /\ UNCHANGED <<cards, updates, effectPending, storage, now, phase, alerts,
                 log, baseDeck, writeOk>>
  /\ batch' = 0
  /\ cout' = <<>>
  /\ UNCHANGED <<uncaught, savedDeck, cin>>

\* mutant of loadFromUrlResume: res.ok is not tested
loadFromUrlResumeNoOkTest(rd, outcome) ==
  /\ Running
  /\ rd.kind = "url"
  /\ IF outcome # "error"
     THEN /\ inflight' = (inflight \ {rd}) \cup {[rd EXCEPT !.kind = "body"]}
          /\ alerts' = alerts
     ELSE /\ inflight' = inflight \ {rd}
          /\ alerts' = alerts + 1
  /\ op' = IF outcome = "ok" THEN "loadFromUrl:response" ELSE "loadFromUrl:alert"
  /\ UNCHANGED <<updates, log>>
  /\ UNCHANGED <<cards, effectPending, storage, now, started, phase,
                 baseDeck, touched, bootStorage, stopDeck, writeOk>>
  /\ batch' = 0
  /\ cout' = <<>>
  /\ UNCHANGED <<uncaught, savedDeck, cin>>

\* loadFromUrl after `await fetch(url)`: the response arrived, or the fetch
\* threw. A response that is ok leaves the function suspended at
\* `await res.text()`, with nothing queued; anything else ends in the alert.
loadFromUrlResume(rd, outcome) ==
  /\ Running
  /\ rd.kind = "url"
  /\ IF outcome = "ok"
     THEN /\ inflight' = (inflight \ {rd}) \cup {[rd EXCEPT !.kind = "body"]}
          /\ alerts' = alerts
     ELSE /\ inflight' = inflight \ {rd}
          /\ alerts' = alerts + 1
  /\ op' = IF outcome = "ok" THEN "loadFromUrl:response" ELSE "loadFromUrl:alert"
  /\ UNCHANGED <<updates, log>>
  /\ UNCHANGED <<cards, effectPending, storage, now, started, phase,
                 baseDeck, touched, bootStorage, stopDeck, writeOk>>
  /\ batch' = 0
  /\ cout' = <<>>
  /\ UNCHANGED <<uncaught, savedDeck, cin>>

\* loadFromUrl after `await res.text()`: the body arrived and the block is
\* queued, or reading the body threw and the catch alerts
loadFromUrlBody(rd, outcome) ==
  /\ Running
  /\ rd.kind = "body"
  /\ inflight' = inflight \ {rd}
  /\ IF outcome = "ok"
     THEN /\ updates' = Append(updates,
                 [op |-> "url", name |-> urlName(rd.src),
                  parsed |-> parseCSV(UrlBody), seq |-> rd.seq])
          /\ log' = Append(log, [kind |-> "url", src |-> rd.src, text |-> UrlBody])
          /\ alerts' = alerts
     ELSE /\ alerts' = alerts + 1
          /\ UNCHANGED <<updates, log>>
  /\ op' = IF outcome = "ok" THEN "loadFromUrl:ok" ELSE "loadFromUrl:alert"
  /\ UNCHANGED <<cards, effectPending, storage, now, started, phase,
                 baseDeck, touched, bootStorage, stopDeck, writeOk>>
  /\ batch' = 0
  /\ cout' = <<>>
  /\ UNCHANGED <<uncaught, savedDeck, cin>>

\* mutant of clearAll: the snapshot is left in storage
clearAllKeepsSnapshot(answer) ==
  /\ Running
  /\ answer => Len(updates) < MaxQueue
  /\ IF answer
     THEN /\ updates' = Append(updates, [op |-> "set", value |-> <<>>])
          /\ storage' = storage
          /\ log' = <<>>
          /\ baseDeck' = <<>>
     ELSE UNCHANGED <<updates, storage, log, baseDeck>>
  /\ Touch
  /\ op' = IF answer THEN "clearAll:yes" ELSE "clearAll:no"
  /\ UNCHANGED <<cards, effectPending, inflight, now, started, phase, alerts,
                 writeOk>>
  /\ batch' = 0
  /\ savedDeck' = savedDeck
  /\ cout' = <<>>
  /\ UNCHANGED <<uncaught, cin>>

\* mutant of clearAll: the answer of confirm() is ignored
clearAllNoConfirm(answer) ==
  /\ Running
  /\ answer => Len(updates) < MaxQueue
  /\ IF TRUE
     THEN /\ updates' = Append(updates, [op |-> "set", value |-> <<>>])
          /\ storage' = NoItem
          /\ log' = <<>>
          /\ baseDeck' = <<>>
     ELSE UNCHANGED <<updates, storage, log, baseDeck>>
  /\ Touch
  /\ op' = IF answer THEN "clearAll:yes" ELSE "clearAll:no"
  /\ UNCHANGED <<cards, effectPending, inflight, now, started, phase, alerts,
                 writeOk>>
  /\ batch' = 0
  /\ savedDeck' = <<>>
  /\ cout' = <<>>
  /\ UNCHANGED <<uncaught, cin>>

\* clearAll; answer is what confirm() returns
\* mutant of clearAll: a confirmed clear drops the reads in flight
clearAllCancelsReads(answer) ==
  /\ Running
  /\ answer => Len(updates) < MaxQueue
  /\ IF answer
     THEN /\ updates' = Append(updates, [op |-> "set", value |-> <<>>])
          /\ storage' = NoItem
          /\ log' = <<>>
          /\ baseDeck' = <<>>
     ELSE UNCHANGED <<updates, storage, log, baseDeck>>
  /\ Touch
  /\ op' = IF answer THEN "clearAll:yes" ELSE "clearAll:no"
  /\ inflight' = (IF answer THEN {} ELSE inflight)
  /\ UNCHANGED <<cards, effectPending, now, started, phase, alerts, writeOk>>
  /\ batch' = 0
  /\ savedDeck' = (IF answer THEN <<>> ELSE savedDeck)
  /\ cout' = <<>>
  /\ UNCHANGED <<uncaught, cin>>

clearAll(answer) ==
  /\ Running
  /\ answer => Len(updates) < MaxQueue
  /\ IF answer
     THEN /\ updates' = Append(updates, [op |-> "set", value |-> <<>>])
          /\ storage' = NoItem
          /\ log' = <<>>
          /\ baseDeck' = <<>>
     ELSE UNCHANGED <<updates, storage, log, baseDeck>>
  /\ Touch
  /\ op' = IF answer THEN "clearAll:yes" ELSE "clearAll:no"
  /\ UNCHANGED <<cards, effectPending, inflight, now, started, phase, alerts,
                 writeOk>>
  /\ batch' = 0
  /\ savedDeck' = (IF answer THEN <<>> ELSE savedDeck)
  /\ cout' = <<>>
  /\ UNCHANGED <<uncaught, cin>>

\* mutant of exportAllAsCSVHandler: the export empties the Deck
exportAllAsCSVHandlerClears ==
  /\ Running
  /\ Len(updates) < MaxQueue
  /\ cout' = <<[csv |-> exportAllAsCSV(cards)]>>
  /\ updates' = Append(updates, [op |-> "set", value |-> <<>>])
  /\ op' = "exportAllAsCSV"
  /\ batch' = 0
  /\ UNCHANGED <<cards, effectPending, storage, inflight, now, started,
                 phase, alerts, uncaught, savedDeck, cin>>
  /\ UNCHANGED history

\* the export button: the text of the rendered cards is handed to the
\* download; no state of the component and no storage call
exportAllAsCSVHandler ==
  /\ Running
  /\ cout' = <<[csv |-> exportAllAsCSV(cards)]>>
  /\ op' = "exportAllAsCSV"
  /\ batch' = 0
  /\ UNCHANGED <<cards, updates, effectPending, storage, inflight, now,
                 started, phase, alerts, uncaught, savedDeck, cin>>
  /\ UNCHANGED history

\* the page is closed: everything but the storage and the clock is lost
Stop ==
  /\ phase # "stopped"
  /\ stopDeck' = IF phase = "ready" /\ updates = <<>> /\ ~effectPending /\ writeOk
                 THEN cards ELSE <<>>
  /\ cards' = <<>>
  /\ updates' = <<>>
  /\ effectPending' = FALSE
  /\ inflight' = {}
  /\ phase' = "stopped"
  /\ alerts' = 0
  /\ log' = <<>>
  /\ baseDeck' = <<>>
  /\ touched' = FALSE
  /\ writeOk' = TRUE
  /\ batch' = 0
  /\ uncaught' = FALSE
  /\ cout' = <<>>
  /\ UNCHANGED <<savedDeck, cin>>
  /\ op' = "Stop"
  /\ UNCHANGED <<storage, now, started, bootStorage>>

\* the page is opened: first render with cards = []
Start ==
  /\ phase = "stopped"
  /\ phase' = "mount"
  /\ bootStorage' = storage
  /\ op' = "Start"
  /\ UNCHANGED <<cards, updates, effectPending, storage, inflight, now,
                 started, alerts, log, baseDeck, touched, stopDeck, writeOk>>
  /\ batch' = 0
  /\ cout' = <<>>
  /\ UNCHANGED <<uncaught, savedDeck, cin>>

Next ==
  \/ MountEffects
  \/ \E ts \in clockReadings(now, dateNowCallsOf(updates)) : Render(ts)
  \/ \E ok \in BOOLEAN : SaveEffect(ok)
  \/ \E fileList \in FileLists : handleFiles(fileList)
  \/ \E rd \in inflight : readerOnload(rd)
  \/ \E rd \in inflight : readerError(rd)
  \/ \E url \in Urls : loadFromUrl(url)
  \/ \E rd \in inflight, outcome \in FetchOutcomes : loadFromUrlResume(rd, outcome)
  \/ \E rd \in inflight, outcome \in BodyOutcomes : loadFromUrlBody(rd, outcome)
  \/ \E answer \in BOOLEAN : clearAll(answer)
  \/ Stop
  \/ Start

Spec == Init /\ [][Next]_vars

\* the first process finds any item under STORAGE_KEY that holds no entry
InitBoot ==
  /\ storage \in BootItems
  /\ bootStorage = storage
  /\ cards = <<>>
  /\ updates = <<>>
  /\ effectPending = FALSE
  /\ inflight = {}
  /\ now = 0
  /\ started = 0
  /\ phase = "mount"
  /\ alerts = 0
  /\ op = "Start"
  /\ log = <<>>
  /\ baseDeck = <<>>
  /\ touched = FALSE
  /\ stopDeck = <<>>
  /\ writeOk = TRUE
  /\ batch = 0
  /\ uncaught = FALSE
  /\ savedDeck = <<>>
  /\ cin = NoInput
  /\ cout = <<>>

SpecBoot == InitBoot /\ [][Next]_vars

\* the application with the export button. The steps that change neither the
\* Deck, nor the queue, nor the storage (a refused clear, a failed read, a
\* failed fetch) are left out.
NextExport ==
  \/ MountEffects
  \/ \E ts \in clockReadings(now, dateNowCallsOf(updates)) : Render(ts)
  \/ \E ok \in BOOLEAN : SaveEffect(ok)
  \/ \E fileList \in FileLists : handleFiles(fileList)
  \/ \E rd \in inflight : readerOnload(rd)
  \/ \E url \in Urls : loadFromUrl(url)
  \/ \E rd \in inflight : loadFromUrlResume(rd, "ok")
  \/ \E rd \in inflight : loadFromUrlBody(rd, "ok")
  \/ clearAll(TRUE)
  \/ exportAllAsCSVHandler
  \/ Stop
  \/ Start

SpecExport == Init /\ [][NextExport]_vars

\* the application when the sources of a process are all picked in its
\* first handler call, so that every read is in flight at any clear that
\* follows; no read fails and every clear is confirmed
NextClear ==
  \/ MountEffects
  \/ \E ts \in clockReadings(now, dateNowCallsOf(updates)) : Render(ts)
  \/ \E ok \in BOOLEAN : SaveEffect(ok)
  \/ \E fileList \in FileLists : ~touched /\ handleFiles(fileList)
  \/ \E rd \in inflight : readerOnload(rd)
  \/ \E url \in Urls : ~touched /\ loadFromUrl(url)
  \/ \E rd \in inflight : loadFromUrlResume(rd, "ok")
  \/ \E rd \in inflight : loadFromUrlBody(rd, "ok")
  \/ clearAll(TRUE)
  \/ Stop
  \/ Start

SpecClear == Init /\ [][NextClear]_vars

\* the application on a storage whose writes fail and succeed in turn: a
\* setItem throws unless the one before it threw, so that every snapshot
\* written follows a failed write; no read fails, every clear is confirmed
NextHeal ==
  \/ MountEffects
  \/ \E ts \in clockReadings(now, dateNowCallsOf(updates)) : Render(ts)
  \/ SaveEffect(~writeOk)
  \/ \E fileList \in FileLists : handleFiles(fileList)
  \/ \E rd \in inflight : readerOnload(rd)
  \/ \E url \in Urls : loadFromUrl(url)
  \/ \E rd \in inflight : loadFromUrlResume(rd, "ok")
  \/ \E rd \in inflight : loadFromUrlBody(rd, "ok")
  \/ clearAll(TRUE)
  \/ Stop
  \/ Start

SpecHeal == Init /\ [][NextHeal]_vars

\* ------------------------------------------------------------- codec steps
app == <<cards, updates, effectPending, storage, inflight, now, started,
         phase, alerts, op, log, baseDeck, touched, bootStorage, stopDeck,
         writeOk, batch, uncaught, savedDeck>>

InitCodec ==
  /\ cin \in CodecInputs(MaxText, MaxField, MaxTitle)
  /\ cout = <<>>
  /\ cards = <<>>
  /\ updates = <<>>
  /\ effectPending = FALSE
  /\ storage = NoItem
  /\ inflight = {}
  /\ now = 0
  /\ started = 0
  /\ phase = "stopped"
  /\ alerts = 0
  /\ op = "Stop"
  /\ log = <<>>
  /\ baseDeck = <<>>
  /\ touched = FALSE
  /\ bootStorage = NoItem
  /\ stopDeck = <<>>
  /\ writeOk = TRUE
  /\ batch = 0
  /\ uncaught = FALSE
  /\ savedDeck = <<>>

\* the document is ingested as one file into the empty Deck: the pairs of
\* parseCSV and the value of the updater of reader.onload
CodecIngest ==
  /\ cin.kind = "doc" /\ Len(cout) = 0
  /\ cout' = <<[pairs |-> parseCSV(cin.text),
                deck |-> handleFilesUpdater(<<>>, ExportName,
                           parseCSV(cin.text),
                           constantClock(0, 1 + Len(parseCSV(cin.text))), 1)]>>
  /\ UNCHANGED <<cin, app>>

\* the Deck the export is taken of: the Cards of the ingested document, one
\* Card with the two fields, or the input Deck
exportedDeck ==
  CASE cin.kind = "doc" -> Tail(cout[1].deck)
    [] cin.kind = "fields" ->
         <<cardEntry(ExportName,
                     [question |-> cin.question, answer |-> cin.answer], 0, 0)>>
    [] cin.kind = "deck" -> <<separatorEntry(cin.title, 0, 1)>> \o cin.tail

CodecExport ==
  /\ \/ cin.kind = "doc" /\ Len(cout) = 1
     \/ cin.kind \in {"fields", "deck"} /\ Len(cout) = 0
  /\ cout' = Append(cout, [csv |-> exportAllAsCSV(exportedDeck)])
  /\ UNCHANGED <<cin, app>>

\* splitCSVLine on the line, or on the exported row of the Card
CodecTokenize ==
  /\ \/ cin.kind = "line" /\ Len(cout) = 0
     \/ cin.kind = "fields" /\ Len(cout) = 1
  /\ cout' = Append(cout,
                [cols |-> splitCSVLine(IF cin.kind = "line" THEN cin.text
                                       ELSE cout[1].csv)])
  /\ UNCHANGED <<cin, app>>

\* the export is ingested as one file into the empty Deck
CodecImport ==
  /\ \/ cin.kind = "doc" /\ Len(cout) = 2
     \/ cin.kind = "deck" /\ Len(cout) = 1
  /\ cout' = Append(cout,
                [pairs |-> parseCSV(cout[Len(cout)].csv),
                 deck |-> handleFilesUpdater(<<>>, ExportName,
                            parseCSV(cout[Len(cout)].csv),
                            constantClock(0,
                              1 + Len(parseCSV(cout[Len(cout)].csv))), 1)])
  /\ UNCHANGED <<cin, app>>

\* loadFromUrl on the URL when the fetch succeeds, into the empty Deck
CodecLoadFromUrl ==
  /\ cin.kind = "url" /\ Len(cout) = 0
  /\ cout' = <<[deck |-> loadFromUrlUpdater(<<>>, urlName(cin.text),
                             parseCSV(UrlBody),
                             constantClock(0, 1 + Len(parseCSV(UrlBody))), 1)]>>
  /\ UNCHANGED <<cin, app>>

NextCodec ==
  \/ CodecIngest
  \/ CodecExport
  \/ CodecTokenize
  \/ CodecImport
  \/ CodecLoadFromUrl

SpecCodec == InitCodec /\ [][NextCodec]_vars

\* ------------------------------------------------------------- properties
\* the Deck once every queued update is rendered
\* the readings of the calls of a queue when the clock stays where it is
NowFor(q) == constantClock(now, dateNowCallsOf(q))

LatestDeck == processUpdates(cards, updates, NowFor(updates))

\* every completed handler is rendered
Settled == Running /\ updates = <<>>

NumSeps(d) == Cardinality({i \in DOMAIN d : d[i].type = "separator"})
NumCards(d) == Cardinality({i \in DOMAIN d : d[i].type = "card"})

\* an entry without its id
shape(e) ==
  IF e.type = "separator" THEN <<"separator", e.title>>
  ELSE <<"card", e.question, e.answer>>

shapes(d) == [i \in 1..Len(d) |-> shape(d[i])]

\* parseCSV of the texts the sources of the application hold, computed once
ParsedTexts == [t \in {FileA.text, FileE.text, UrlBody} |-> parseCSV(t)]

parsedText(text) ==
  IF text \in DOMAIN ParsedTexts THEN ParsedTexts[text] ELSE parseCSV(text)

\* the name of a completed source, and the block its completion owes
srcName(l) == IF l.kind = "url" THEN urlName(l.src) ELSE l.src

expectedBlock(l) ==
  LET parsed == parsedText(l.text)
  IN << <<"separator", srcName(l)>> >>
       \o [i \in 1..Len(parsed) |-> <<"card", parsed[i].question, parsed[i].answer>>]

RECURSIVE expectedBlocks(_)
expectedBlocks(ls) ==
  IF ls = <<>> THEN <<>> ELSE expectedBlock(Head(ls)) \o expectedBlocks(Tail(ls))

RECURSIVE sumRows(_)
sumRows(ls) ==
  IF ls = <<>> THEN 0 ELSE Len(parsedText(Head(ls).text)) + sumRows(Tail(ls))

\* two separators of the Deck stand in the reverse of the order in which
\* their reads were started: the later read completed while the earlier one
\* was still in flight
ReversedCompletion ==
  \E i, j \in DOMAIN cards :
    /\ i < j
    /\ cards[i].type = "separator" /\ cards[j].type = "separator"
    /\ cards[i].id.r > cards[j].id.r

\* C1: no lost updates. Once every completion since the Deck was last
\* replaced is rendered, the Deck holds one Separator more per completed
\* source and k_i Cards more for the source with k_i parsed rows, whatever
\* the order of the completions.
C1_NoLostUpdates ==
  Settled =>
    /\ NumSeps(cards) = NumSeps(baseDeck) + Len(log)
    /\ NumCards(cards) = NumCards(baseDeck) + sumRows(log)

C1_Witness ==
  /\ Settled /\ Len(log) = 2 /\ batch = 2
  /\ ReversedCompletion
  /\ sumRows(log) >= 2

\* C2 (as claimed): no two entries of the Deck have the same id.
C2_UniqueIds ==
  \A i, j \in DOMAIN cards : i # j => cards[i].id # cards[j].id

\* C3: block shape. The rendered Deck is the value it was last replaced with
\* followed, for each completed source in completion order, by one Separator
\* titled with the source name and one Card per parsed pair, in parse order.
C3_BlockShape ==
  Settled => shapes(cards) = shapes(baseDeck) \o expectedBlocks(log)

C3_Witness ==
  /\ Settled /\ Len(log) = 2
  /\ log[1].kind = "file" /\ Len(parseCSV(log[1].text)) = 2
  /\ log[2].kind = "url"
  /\ ReversedCompletion
  /\ Len(cards) = 5

\* the source an entry names: the title of a Separator, the name in the id
\* of a Card
nameOf(e) == IF e.type = "separator" THEN e.title ELSE e.id.name

DistinctNames ==
  \A k, m \in 1..Len(log) : k # m => srcName(log[k]) # srcName(log[m])

logPos(n) == CHOOSE k \in 1..Len(log) : srcName(log[k]) = n

\* C4: cross-source order is completion order. For sources of different
\* names, every entry of a source that completed earlier precedes every
\* entry of a source that completed later.
C4_CompletionOrder ==
  (Settled /\ DistinctNames) =>
    /\ \A k \in 1..Len(log) : \E i \in DOMAIN cards :
         i > Len(baseDeck) /\ nameOf(cards[i]) = srcName(log[k])
    /\ \A i \in DOMAIN cards : i > Len(baseDeck) =>
         \E k \in 1..Len(log) : nameOf(cards[i]) = srcName(log[k])
    /\ \A i, j \in DOMAIN cards :
         (Len(baseDeck) < i /\ i < j) =>
           logPos(nameOf(cards[i])) <= logPos(nameOf(cards[j]))

C4_Witness ==
  /\ Settled /\ DistinctNames /\ Len(log) = 2
  /\ ReversedCompletion
  /\ NumCards(cards) >= 2

\* the Deck the same completions give from the same start in reversed order
reverse(ls) == [i \in 1..Len(ls) |-> ls[Len(ls) + 1 - i]]

replayUpdates(ls) ==
  [i \in 1..Len(ls) |->
     [op |-> ls[i].kind, name |-> srcName(ls[i]),
      parsed |-> parsedText(ls[i].text), seq |-> i]]

ReversedDeck ==
  LET q == replayUpdates(reverse(log))
  IN processUpdates(baseDeck, q, NowFor(q))

shapeBag(d) ==
  LET S == {shape(d[i]) : i \in DOMAIN d}
  IN [x \in S |-> Cardinality({i \in DOMAIN d : shape(d[i]) = x})]

\* C5: completion-order independence. The rendered Deck and the Deck given
\* by the reversed completion order hold the same multiset of entries
\* (ids aside), and the entries of each source, told apart by its name, in
\* the same relative order.
C5_OrderIndependence ==
  Settled =>
    LET rev == ReversedDeck
    IN /\ shapeBag(cards) = shapeBag(rev)
       /\ DistinctNames => \A k \in 1..Len(log) :
            LET n == srcName(log[k])
                own(d) == SelectSeq(d, LAMBDA e : nameOf(e) = n)
            IN shapes(own(cards)) = shapes(own(rev))

C5_Witness ==
  /\ Settled /\ Len(log) = 2 /\ DistinctNames
  /\ shapes(cards) # shapes(ReversedDeck)
  /\ NumCards(cards) >= 2

\* C6: confirmed clear. When clearAll returns after a yes, no snapshot is
\* stored and the Deck the next render commits is empty; and once that
\* render and its save effect have run, with no source completed since, the
\* Deck is empty and no snapshot is stored.
C6_ConfirmedClear ==
  /\ op = "clearAll:yes" => (storage = NoItem /\ LatestDeck = <<>>)
  /\ (Settled /\ ~effectPending /\ touched /\ log = <<>> /\ baseDeck = <<>>)
       => (cards = <<>> /\ storage = NoItem)

\* a confirmed clear of a non-empty Deck whose snapshot was stored
C6_Witness ==
  /\ op = "clearAll:yes"
  /\ cards # <<>> /\ ~effectPending /\ writeOk
  /\ updates = <<[op |-> "set", value |-> <<>>]>>

\* C7: refused clear. A clearAll answered no leaves the Deck, the queued
\* updates, the reads in flight and the stored snapshot as they were.
C7_RefusedClear ==
  [][op' = "clearAll:no" =>
       /\ cards' = cards
       /\ updates' = updates
       /\ storage' = storage
       /\ inflight' = inflight
       /\ effectPending' = effectPending]_vars

C7_Witness ==
  /\ op = "clearAll:no"
  /\ cards # <<>>
  /\ storage = JSONstringify(cards)

\* C8 (as claimed): after a stop with a non-empty, fully saved Deck, once the
\* next process has finished starting, its Deck is that Deck and the stored
\* snapshot is again that Deck.
C8_RestartRoundTrip ==
  (phase = "ready" /\ ~touched /\ stopDeck # <<>> /\ updates = <<>>
     /\ ~effectPending)
    => /\ cards = stopDeck
       /\ storage.kind = "array"
       /\ JSONparse(storage) = stopDeck

\* C9 (as claimed): a process started with a non-empty snapshot keeps that
\* snapshot in storage until the rehydrated Deck is rendered.
C9_SnapshotKeptWhileStarting ==
  (phase \in {"mount", "hydrate"} /\ ~touched /\ bootStorage.kind = "array")
    => storage = bootStorage

\* C10: the snapshot tracks the Deck. When every update is rendered and the
\* save effect of the last render has run without a storage failure, the
\* snapshot is absent if the Deck is empty and otherwise decodes to the Deck.
C10_SnapshotTracksDeck ==
  (Settled /\ ~effectPending /\ writeOk) =>
    IF cards = <<>> THEN storage = NoItem
    ELSE storage.kind = "array" /\ JSONparse(storage) = cards

\* the save effect has run after a render that applied two appends at once
C10_Witness ==
  /\ op = "SaveEffect" /\ batch = 2 /\ Len(log) = 2
  /\ Settled /\ writeOk
  /\ NumSeps(cards) >= 2
  /\ storage.kind = "array" /\ JSONparse(storage) = cards

\* the process found, at its start, an item that holds no entry
FailOpenBoot == bootStorage \in BootItems

\* C11: fail-open startup. A process that finds the snapshot absent, empty,
\* undecodable, not an array or an empty array comes up with an empty Deck:
\* after its mount effects nothing is queued or rendered, no error has left
\* an effect, no alert was raised, and ingestion is open. From there every
\* completed source adds its block as to a fresh Deck.
C11_FailOpenStartup ==
  /\ (op = "MountEffects" /\ FailOpenBoot)
       => /\ cards = <<>> /\ updates = <<>> /\ ~effectPending
          /\ phase = "ready"
          /\ ~uncaught /\ alerts = 0
          /\ started < MaxReads =>
               /\ ENABLED handleFiles(<<FileA>>)
               /\ ENABLED loadFromUrl(UrlA)
  /\ (Settled /\ baseDeck = <<>>) => shapes(cards) = expectedBlocks(log)

\* the mount effects have run on text that is not JSON
C11_Witness ==
  /\ op = "MountEffects" /\ bootStorage = Garbage
  /\ phase = "ready" /\ cards = <<>> /\ ~uncaught

\* the Deck a process started on this item rehydrates
storedDeck(item) == IF loadEffect(item) # <<>> THEN JSONparse(item) ELSE <<>>

\* the save effect of a render that applied an append met a storage failure,
\* and every completed source is rendered
AppendWriteFailed == op = "SaveEffect:throws" /\ updates = <<>> /\ log # <<>>

\* C12 (as claimed): a failed snapshot write does not roll back. After the
\* storage write made for an append has failed, the Deck still holds the
\* appended blocks, no error has left the effect, and the stored snapshot is
\* the Deck as of the last successful write, which a restart would yield.
C12_WriteFailureKeepsLastWrite ==
  AppendWriteFailed
    => /\ shapes(cards) = shapes(baseDeck) \o expectedBlocks(log)
       /\ ~uncaught
       /\ storedDeck(storage) = savedDeck

\* what holds of C12 in every process: the failed write changes neither the
\* Deck nor the stored item, and no error leaves the effect
C12_NoRollback ==
  [][op' = "SaveEffect:throws"
       => cards' = cards /\ storage' = storage /\ ~uncaught']_vars

\* C13: a failed URL ingestion. When the fetch throws or answers with a
\* status that is not ok (or reading the body throws), the step changes
\* neither the Deck, nor the queued updates, nor the stored snapshot, calls
\* alert exactly once, and ends the load: the URL is no longer in flight, so
\* no Separator is appended for it later either.
C13_UrlFailure ==
  [][op' = "loadFromUrl:alert"
       => /\ cards' = cards /\ updates' = updates /\ log' = log
          /\ storage' = storage /\ effectPending' = effectPending
          /\ alerts' = alerts + 1
          /\ \E rd \in inflight : /\ rd.kind \in {"url", "body"}
                                   /\ inflight' = inflight \ {rd}]_vars

\* a fetch has failed while the Deck held a saved block
C13_Witness ==
  /\ op = "loadFromUrl:alert" /\ alerts = 1
  /\ updates = <<>> /\ NumSeps(cards) = 1
  /\ storage = JSONstringify(cards)

\* C14 (as claimed): a failed file read. The step that fails the read of one
\* file raises one failure notification, appends nothing for that file, and
\* leaves every other read in flight.
C14_FileReadFailure ==
  [][op' = "readerError"
       => /\ alerts' = alerts + 1
          /\ cards' = cards /\ updates' = updates /\ log' = log
          /\ \E rd \in inflight : inflight' = inflight \ {rd}]_vars

\* what holds of C14: nothing is appended for the failed file and the other
\* reads stay in flight; no notification is raised
C14_FailedReadAppendsNothing ==
  [][op' = "readerError"
       => /\ alerts' = alerts /\ ~uncaught'
          /\ cards' = cards /\ updates' = updates /\ log' = log
          /\ \E rd \in inflight : inflight' = inflight \ {rd}]_vars

\* C15: a stalled source blocks nothing. While a read stays in flight, the
\* queued updates of the completed sources can be rendered; and once they
\* are rendered and saved, the Deck holds the full block of each completed
\* source and the snapshot is that Deck.
C15_StalledSourceBlocksNothing ==
  /\ (Running /\ updates # <<>> /\ ~effectPending) => ENABLED Render(NowFor(updates))
  /\ (Settled /\ ~effectPending /\ writeOk /\ inflight # {})
       => /\ shapes(cards) = shapes(baseDeck) \o expectedBlocks(log)
          /\ storedDeck(storage) = cards

\* the read started first is still in flight; the block of the read started
\* second is in the Deck and in the snapshot
C15_Witness ==
  /\ Settled /\ ~effectPending /\ writeOk
  /\ \E rd \in inflight : rd.seq = 1
  /\ \E i \in DOMAIN cards : cards[i].type = "separator" /\ cards[i].id.r = 2
  /\ NumCards(cards) >= 1
  /\ storage = JSONstringify(cards)

\* ------------------------------------------------------ codec properties
\* the (question, answer) pairs of the Cards of a Deck, in order
cardPairs(d) ==
  LET cs == SelectSeq(d, LAMBDA e : e.type = "card")
  IN [i \in 1..Len(cs) |-> [question |-> cs[i].question, answer |-> cs[i].answer]]

\* C16: no empty pairs. For every document, every pair parseCSV returns has
\* a question or an answer that is not empty after trimming; the lines that
\* are empty after trimming give no pair; and the Cards the ingestion of the
\* document appends are those pairs, none with both fields empty.
C16_NoEmptyPairs ==
  (cin.kind = "doc" /\ Len(cout) >= 1) =>
    LET pairs == cout[1].pairs
        lines == splitLines(cin.text)
    IN /\ \A i \in DOMAIN pairs :
            trim(pairs[i].question) # <<>> \/ trim(pairs[i].answer) # <<>>
       /\ Len(pairs) <= Cardinality({i \in DOMAIN lines : trim(lines[i]) # <<>>})
       /\ cardPairs(cout[1].deck) = pairs
       /\ NumSeps(cout[1].deck) = 1

\* a blank line, a line of one comma, and a line with a question
C16_Witness ==
  /\ cin.kind = "doc" /\ cin.text = <<" ", "\n", ",", "\n", "a">>
  /\ Len(cout) >= 1
  /\ cout[1].pairs = <<[question |-> <<"a">>, answer |-> <<>>]>>

\* C17: field round trip through the tokenizer. For every two field values,
\* commas, quotes and line breaks included, splitCSVLine applied to the row
\* the export writes for a Card of these two fields returns exactly the two
\* values.
C17_FieldRoundTrip ==
  (cin.kind = "fields" /\ Len(cout) = 2)
    => cout[2].cols = <<cin.question, cin.answer>>

\* the question holds a quote and a comma, the answer a line break
C17_Witness ==
  /\ cin.kind = "fields" /\ Len(cout) = 2
  /\ cin.question = <<"\"", ",">> /\ cin.answer = <<"\n", "a">>
  /\ cout[1].csv = <<"\"", "\"", "\"", ",", "\"", ",", "\"", "\n", "a", "\"">>
  /\ cout[2].cols = <<cin.question, cin.answer>>

\* C18: Card round trip at document level. For the Cards the ingestion of
\* any document appends, parseCSV of their export returns the same pairs in
\* the same order, and ingesting the export appends Cards of these pairs.
C18_CardRoundTrip ==
  (cin.kind = "doc" /\ Len(cout) = 3)
    => /\ cout[3].pairs = cout[1].pairs
       /\ cardPairs(cout[3].deck) = cardPairs(cout[1].deck)

\* two Cards, one of them with a field the export quotes
C18_Witness ==
  /\ cin.kind = "doc" /\ Len(cout) = 3
  /\ Len(cout[1].pairs) = 2
  /\ \E i \in 1..2 : includes(cout[1].pairs[i].question, ",")
  /\ includes(cout[2].csv, "\"")
  /\ cout[3].pairs = cout[1].pairs

\* the pair the claim gives for an exported entry: "#" + title and the empty
\* answer for a Separator, its own fields for a Card
claimedPair(e) ==
  IF e.type = "separator"
  THEN [question |-> <<"#">> \o e.title, answer |-> <<>>]
  ELSE [question |-> e.question, answer |-> e.answer]

\* the pair parseCSV returns for an exported entry: as claimed, with the
\* question of a Separator row trimmed
reimportedPair(e) ==
  IF e.type = "separator"
  THEN [question |-> trim(<<"#">> \o e.title), answer |-> <<>>]
  ELSE [question |-> e.question, answer |-> e.answer]

\* C19 (as claimed): Separator asymmetry on re-import. The export of a Deck
\* of S Separators and C Cards, ingested as one source into the empty Deck,
\* gives one Separator followed by S + C Cards in the exported order, the
\* Card of a Separator of title t having the question "#" + t and the empty
\* answer.
C19_SeparatorAsymmetry ==
  (cin.kind = "deck" /\ Len(cout) = 2) =>
    LET d == exportedDeck
        got == cout[2].deck
    IN /\ NumSeps(got) = 1 /\ got[1].type = "separator"
       /\ NumCards(got) = NumSeps(d) + NumCards(d)
       /\ cardPairs(got) = [i \in 1..Len(d) |-> claimedPair(d[i])]

\* C19 (amended): as claimed for a Deck whose titles hold no line break,
\* the question of the Card of a Separator of title t being "#" + t trimmed.
C19_SeparatorAsymmetryTrimmed ==
  (cin.kind = "deck" /\ Len(cout) = 2 /\ ~includes(cin.title, "\n")) =>
    LET d == exportedDeck
        got == cout[2].deck
    IN /\ NumSeps(got) = 1 /\ got[1].type = "separator"
       /\ NumCards(got) = NumSeps(d) + NumCards(d)
       /\ cardPairs(got) = [i \in 1..Len(d) |-> reimportedPair(d[i])]

\* a Deck of two Separators and three Cards, the first title ending in a
\* space, has been exported and ingested again
C19_Witness ==
  /\ cin.kind = "deck" /\ Len(cout) = 2
  /\ cin.title = <<"t", " ">>
  /\ NumSeps(exportedDeck) = 2 /\ NumCards(exportedDeck) = 3
  /\ NumSeps(cout[2].deck) = 1 /\ NumCards(cout[2].deck) = 5
  /\ cout[2].deck[2].question = <<"#", "t">>

\* the text the claim gives for a field: wrapped in quotes with its quotes
\* doubled if and only if it holds a comma, a quote or a line break
claimedField(f) ==
  IF \E i \in 1..Len(f) : f[i] \in {",", "\"", "\n"}
  THEN <<"\"">> \o doubleQuotes(f) \o <<"\"">>
  ELSE f

\* the row the claim gives for an entry
claimedRow(e) ==
  IF e.type = "separator" THEN claimedField(<<"#">> \o e.title)
  ELSE claimedField(e.question) \o <<",">> \o claimedField(e.answer)

\* the rows of a Deck in Deck order, one line break between two rows
RECURSIVE claimedText(_)
claimedText(d) ==
  IF d = <<>> THEN <<>>
  ELSE IF Len(d) = 1 THEN claimedRow(d[1])
  ELSE claimedText(SubSeq(d, 1, Len(d) - 1)) \o <<"\n">> \o claimedRow(d[Len(d)])

\* the export computed so far
exportedText == IF cin.kind = "doc" THEN cout[2].csv ELSE cout[1].csv

Exported == (cin.kind = "doc" /\ Len(cout) >= 2)
              \/ (cin.kind \in {"fields", "deck"} /\ Len(cout) >= 1)

\* C20: the format of the export. For every Deck the text is one row per
\* entry in Deck order, "#" + title for a Separator and question,answer for
\* a Card, each field quoted (inner quotes doubled) exactly when it holds a
\* comma, a quote or a line break, one line break between rows and none at
\* the end; the Deck Separator("file1.csv"), Card("Q", "A") gives the text
\* #file1.csv, line break, Q,A.
C20_ExportFormat ==
  Exported =>
    /\ exportedText = claimedText(exportedDeck)
    /\ exportedText = <<>> \/ exportedText[Len(exportedText)] # "\n"
    /\ (cin.kind = "deck" /\ cin.title = ExampleTitle /\ cin.tail = ExampleCards)
         => exportedText = <<"#", "f", "i", "l", "e", "1", ".", "c", "s", "v",
                             "\n", "Q", ",", "A">>

\* the Deck of the example has been exported
C20_Witness ==
  /\ cin.kind = "deck" /\ cin.title = ExampleTitle /\ cin.tail = ExampleCards
  /\ Len(cout) >= 1
  /\ cout[1].csv = <<"#", "f", "i", "l", "e", "1", ".", "c", "s", "v",
                     "\n", "Q", ",", "A">>

\* the reference tokenizer, by positions. A position is inside quotes when
\* the number of quote characters before it is odd.
quotesBefore(line, i) == Cardinality({j \in 1..(i - 1) : line[j] = "\""})

\* the commas that split: those outside quotes
cuts(line) ==
  {i \in 1..Len(line) : line[i] = "," /\ quotesBefore(line, i) % 2 = 0}

\* the length of the run of quote characters that starts at i
RECURSIVE quoteRun(_, _)
quoteRun(line, i) ==
  IF i <= Len(line) /\ line[i] = "\"" THEN 1 + quoteRun(line, i + 1) ELSE 0

\* the field read from positions i..hi: other characters are kept; a run of
\* k quotes that starts inside quotes is k \div 2 doubled quotes, each one
\* literal quote, and a toggling quote if k is odd; a run that starts
\* outside quotes is a toggling quote and then a run inside quotes
RECURSIVE refField(_, _, _)
refField(line, i, hi) ==
  IF i > hi THEN <<>>
  ELSE IF line[i] # "\"" THEN <<line[i]>> \o refField(line, i + 1, hi)
  ELSE LET k == quoteRun(line, i)
           n == IF quotesBefore(line, i) % 2 = 1 THEN k \div 2
                ELSE (k - 1) \div 2
       IN [j \in 1..n |-> "\""] \o refField(line, i + k, hi)

\* the fields between the splitting commas, the last one up to the end
RECURSIVE refFieldsFrom(_, _)
refFieldsFrom(line, start) ==
  LET later == {c \in cuts(line) : c >= start}
  IN IF later = {} THEN <<refField(line, start, Len(line))>>
     ELSE LET c == CHOOSE x \in later : \A y \in later : x <= y
          IN <<refField(line, start, c - 1)>> \o refFieldsFrom(line, c + 1)

refFields(line) == refFieldsFrom(line, 1)

\* C21: the tokenizer against its reference. For every line splitCSVLine
\* splits at the commas outside quotes only, reads a doubled quote inside
\* quotes as one quote, puts no toggling quote in a field, and returns one
\* field more than there are splitting commas, the last one even if empty;
\* and parseCSV of the example document returns ("A", "B") and
\* ("C, D", "E""F" read as E, quote, F) in that order.
C21_TokenizerReference ==
  /\ (cin.kind = "line" /\ Len(cout) = 1)
       => /\ cout[1].cols = refFields(cin.text)
          /\ Len(cout[1].cols) = Cardinality(cuts(cin.text)) + 1
  /\ (cin.kind = "doc" /\ cin.text = ExampleDoc /\ Len(cout) >= 1)
       => cout[1].pairs =
            <<[question |-> <<"A">>, answer |-> <<"B">>],
              [question |-> <<"C", ",", " ", "D">>,
               answer |-> <<"E", "\"", "F">>]>>

\* the second line of the example has been tokenized
C21_Witness ==
  /\ cin.kind = "line" /\ cin.text = ExampleLine /\ Len(cout) = 1
  /\ cout[1].cols = <<<<"C", ",", " ", "D">>, <<"E", "\"", "F">>>>

\* a text with no rows: every line is blank, or its first two fields are
\* empty after trimming
NoRows(text) ==
  LET lines == splitLines(text)
  IN \A k \in DOMAIN lines :
       \/ trim(lines[k]) = <<>>
       \/ LET cols == splitCSVLine(trim(lines[k]))
          IN /\ trim(cols[1]) = <<>>
             /\ Len(cols) >= 2 => trim(cols[2]) = <<>>

\* the completed sources but the last one
FrontLog == SubSeq(log, 1, Len(log) - 1)

\* C22: a source with no rows. When the file read last has no rows and its
\* completion is rendered, the Deck has grown, since it was last replaced,
\* by the blocks of the earlier sources and one entry more, which is last
\* and is the Separator titled with the file name, with no Card after it;
\* once the save effect of that render has run without a storage failure
\* the snapshot decodes to a Deck that ends with that Separator.
C22_SourceWithNoRows ==
  (Settled /\ log # <<>> /\ log[Len(log)].kind = "file"
     /\ NoRows(log[Len(log)].text))
    => /\ Len(cards) = Len(baseDeck) + Len(FrontLog) + sumRows(FrontLog) + 1
       /\ shape(cards[Len(cards)]) = <<"separator", log[Len(log)].src>>
       /\ (~effectPending /\ writeOk)
            => /\ storage.kind = "array"
               /\ JSONparse(storage)[Len(cards)] = cards[Len(cards)]
               /\ Len(JSONparse(storage)) = Len(cards)

\* a file with no rows was read after a file with rows, and the Deck is saved
C22_Witness ==
  /\ Settled /\ ~effectPending /\ writeOk
  /\ Len(log) = 2 /\ log[2].kind = "file" /\ log[2].text = FileE.text
  /\ log[1].text = FileA.text
  /\ Len(cards) = 4
  /\ storage = JSONstringify(cards)

\* C22 for every document: a document with no rows, the empty one among
\* them, ingested into the empty Deck gives the Separator alone
C22_NoRowsDocument ==
  (cin.kind = "doc" /\ Len(cout) >= 1 /\ NoRows(cin.text))
    => /\ cout[1].pairs = <<>>
       /\ shapes(cout[1].deck) = << <<"separator", ExportName>> >>

\* C23: the export is read-only. In every state where the component is
\* mounted, the empty Deck included, the export hands the text of the
\* rendered Deck, row by row as the format gives it, to the download, and
\* leaves the Deck, the queued updates, the pending effect, the reads in
\* flight and the stored snapshot as they were.
C23_ExportReadOnly ==
  [][op' = "exportAllAsCSV"
       => /\ cout' = <<[csv |-> claimedText(cards)]>>
          /\ cards' = cards /\ updates' = updates
          /\ effectPending' = effectPending /\ inflight' = inflight
          /\ storage' = storage /\ phase' = phase]_vars

\* a saved Deck of two blocks has been exported, and so has the empty Deck
C23_Witness ==
  /\ op = "exportAllAsCSV" /\ Len(log) = 2 /\ Len(cards) >= 4
  /\ storage = JSONstringify(cards)
  /\ cout = <<[csv |-> exportAllAsCSV(cards)]>>

C23_WitnessEmptyDeck ==
  /\ op = "exportAllAsCSV" /\ cards = <<>> /\ storage = NoItem
  /\ cout = <<[csv |-> <<>>]>>

\* the title the claim gives for a URL, by positions: the text after the
\* last "/" when there is a "/" and it is not the last character, else the
\* whole URL
claimedTitle(url) ==
  LET slashes == {i \in 1..Len(url) : url[i] = "/"}
  IN IF slashes = {} THEN url
     ELSE LET l == CHOOSE i \in slashes : \A j \in slashes : j <= i
          IN IF l < Len(url) THEN SubSeq(url, l + 1, Len(url)) ELSE url

\* C24: the title of the Separator of a URL. For every URL whose fetch
\* succeeds the block appended starts with a Separator whose title is the
\* text after the last "/" of the URL when that text is not empty, and the
\* whole URL when the URL holds no "/" or ends in "/"; the block holds no
\* other Separator.
C24_UrlSeparatorTitle ==
  (cin.kind = "url" /\ Len(cout) = 1)
    => /\ shape(cout[1].deck[1]) = <<"separator", claimedTitle(cin.text)>>
       /\ NumSeps(cout[1].deck) = 1
       /\ NumCards(cout[1].deck) = Len(parseCSV(UrlBody))

\* a URL with two "/" that ends in "/" has been loaded
C24_Witness ==
  /\ cin.kind = "url" /\ cin.text = <<"h", "/", ".", "/">> /\ Len(cout) = 1
  /\ cout[1].deck[1].title = <<"h", "/", ".", "/">>

IsPrefix(a, b) == Len(a) <= Len(b) /\ SubSeq(b, 1, Len(a)) = a

\* the queued replacements of the Deck: a clear, or the rehydration
Replacements == {i \in DOMAIN updates : updates[i].op = "set"}

\* C25: append-only during ingestion. A completion queues one update and
\* leaves the rendered Deck alone, and the Deck the next render gives has
\* the Deck it would have given before the completion as a prefix; a render
\* that applies completions only keeps every entry at its position; and in
\* a running process the rendered Deck stops being a prefix of its next
\* value only in a render that applies a confirmed clear (the empty Deck)
\* or the rehydration of the start.
C25_AppendOnly ==
  [][/\ op' \in {"readerOnload", "loadFromUrl:ok"}
          => /\ cards' = cards
             /\ Len(updates') = Len(updates) + 1
             /\ IsPrefix(LatestDeck, LatestDeck')
     /\ (op' = "Render" /\ Replacements = {}) => IsPrefix(cards, cards')
     /\ (op' # "Stop" /\ ~IsPrefix(cards, cards'))
          => /\ op' = "Render"
             /\ \E i \in Replacements :
                  updates[i].value = <<>> \/ phase = "hydrate"]_vars

\* a render has applied the completion of a URL to a Deck of one block
C25_Witness ==
  /\ op = "Render" /\ batch = 1 /\ Len(log) = 2
  /\ log[1].kind = "file" /\ log[2].kind = "url"
  /\ Len(cards) >= 5
  /\ cards[1].title = log[1].src

\* the lines of a document put together again, and the document without
\* its line k
joinLines(ls) == join(ls, <<"\n">>)

withoutLine(ls, k) == SubSeq(ls, 1, k - 1) \o SubSeq(ls, k + 1, Len(ls))

\* a quote of the line is left open at its end
UnterminatedQuote(line) == quotesBefore(line, Len(line) + 1) % 2 = 1

\* a line that is not blank and holds no comma outside quotes
OneField(line) == trim(line) # <<>> /\ cuts(trim(line)) = {}

\* C26 (as claimed): per-line independence. For every document and every
\* line k of it: the pairs of the document are the pairs of the lines before
\* k, then the pairs of line k alone, then the pairs of the lines after k,
\* and the document without line k gives the pairs before and after; and
\* every line of one field gives a pair, that of the field, trimmed, with an
\* empty answer.
C26_OneFieldGivesPair ==
  (cin.kind = "doc" /\ Len(cout) >= 1) =>
    LET lines == splitLines(cin.text)
    IN \A k \in DOMAIN lines :
         LET pre == parseCSV(joinLines(SubSeq(lines, 1, k - 1)))
             post == parseCSV(joinLines(SubSeq(lines, k + 1, Len(lines))))
             own == parseCSV(lines[k])
             field == trim(refFields(trim(lines[k]))[1])
         IN /\ cout[1].pairs = pre \o own \o post
            /\ parseCSV(joinLines(withoutLine(lines, k))) = pre \o post
            /\ OneField(lines[k])
                 => own = <<[question |-> field, answer |-> <<>>]>>

\* C26 (amended): per-line independence. For every document and every line
\* k of it: the pairs of the document are the pairs of the lines before k,
\* then the pairs of line k alone, then the pairs of the lines after k, and
\* the document without line k gives the pairs before and after, whatever
\* line k holds; a line of one field gives the pair of that field, trimmed,
\* with an empty answer when the field is not empty after trimming, and no
\* pair when it is (a lone quote, a pair of quotes); a line with a quote
\* left open gives at most one pair, its open field running to the end of
\* the line and not beyond.
C26_PerLineIndependence ==
  (cin.kind = "doc" /\ Len(cout) >= 1) =>
    LET lines == splitLines(cin.text)
    IN \A k \in DOMAIN lines :
         LET pre == parseCSV(joinLines(SubSeq(lines, 1, k - 1)))
             post == parseCSV(joinLines(SubSeq(lines, k + 1, Len(lines))))
             own == parseCSV(lines[k])
             field == trim(refFields(trim(lines[k]))[1])
         IN /\ cout[1].pairs = pre \o own \o post
            /\ parseCSV(joinLines(withoutLine(lines, k))) = pre \o post
            /\ Len(own) <= 1
            /\ OneField(lines[k])
                 => own = IF field # <<>>
                          THEN <<[question |-> field, answer |-> <<>>]>>
                          ELSE <<>>

\* a line that is a lone quote, left open: one field, empty after trimming,
\* so no pair; then a line of one field with a quote left open, which gives
\* its pair as if the first line were absent
C26_Witness ==
  /\ cin.kind = "doc" /\ cin.text = <<"\"", "\n", "\"", "a">>
  /\ Len(cout) >= 1
  /\ \A k \in 1..2 : /\ OneField(splitLines(cin.text)[k])
                      /\ UnterminatedQuote(splitLines(cin.text)[k])
  /\ parseCSV(splitLines(cin.text)[1]) = <<>>
  /\ cout[1].pairs = <<[question |-> <<"a">>, answer |-> <<>>]>>

\* a line of one field with a quote left open, then a line of two fields
C26_WitnessTwoFields ==
  /\ cin.kind = "doc" /\ cin.text = <<"\"", "a", "\n", ",", "a">>
  /\ Len(cout) >= 1
  /\ UnterminatedQuote(splitLines(cin.text)[1])
  /\ cout[1].pairs = <<[question |-> <<"a">>, answer |-> <<>>],
                       [question |-> <<>>, answer |-> <<"a">>]>>

\* a line cut before its second splitting comma: its first two fields
firstTwoFields(line) ==
  LET cs == cuts(line)
  IN IF Cardinality(cs) < 2 THEN line
     ELSE LET c2 == CHOOSE c \in cs : Cardinality({x \in cs : x < c}) = 1
          IN SubSeq(line, 1, c2 - 1)

\* C27: extra columns are ignored. For every line of every document, the
\* pairs of the line are those of the line cut before its third field: the
\* first two fields, trimmed, when one of them is not empty, and no pair
\* when both are empty, whatever the later fields hold.
C27_ExtraColumnsIgnored ==
  (cin.kind = "doc" /\ Len(cout) >= 1) =>
    LET lines == splitLines(cin.text)
        rows == {k \in DOMAIN lines : trim(lines[k]) # <<>>}
        own(k) == LET fs == refFields(trim(lines[k]))
                      q == trim(fs[1])
                      a == IF Len(fs) >= 2 THEN trim(fs[2]) ELSE <<>>
                  IN IF q = <<>> /\ a = <<>> THEN <<>>
                     ELSE <<[question |-> q, answer |-> a]>>
    IN /\ \A k \in rows :
            /\ parseCSV(lines[k]) = parseCSV(firstTwoFields(trim(lines[k])))
            /\ parseCSV(lines[k]) = own(k)
       /\ Len(cout[1].pairs) =
            Cardinality({k \in rows : own(k) # <<>>})

\* a row of three fields, the second one empty and the third one not
C27_Witness ==
  /\ cin.kind = "doc" /\ cin.text = <<"a", ",", ",", "a">>
  /\ Len(cout) >= 1
  /\ Len(refFields(cin.text)) = 3
  /\ cout[1].pairs = <<[question |-> <<"a">>, answer |-> <<>>]>>

\* a row whose first two fields are empty and whose third one is not
C27_WitnessDropped ==
  /\ cin.kind = "doc" /\ cin.text = <<",", ",", "a">>
  /\ Len(cout) >= 1
  /\ cout[1].pairs = <<>>

\* a confirmed clear is queued and not rendered yet
ClearQueued == \E i \in DOMAIN updates : updates[i] = [op |-> "set", value |-> <<>>]

\* the Deck was last replaced by the empty Deck, sources have completed
\* since, and every update is rendered and saved
SavedSinceClear ==
  /\ Settled /\ ~effectPending /\ writeOk
  /\ touched /\ baseDeck = <<>> /\ log # <<>>

\* C28: a clear does not cancel the reads in flight. A confirmed clear
\* leaves the reads in flight as they were; when a read that was in flight
\* at the clear completes, the Deck the next render gives is the blocks of
\* the sources completed since the clear, each a Separator and its Cards,
\* after nothing else; and once that is rendered and saved the snapshot is
\* exactly that Deck, with no entry from before the clear.
C28_ClearKeepsReads ==
  [][/\ op' = "clearAll:yes" => (inflight' = inflight /\ log' = <<>>)
     /\ (op' \in {"readerOnload", "loadFromUrl:ok"} /\ touched /\ baseDeck = <<>>)
          => /\ Len(log') = Len(log) + 1
             /\ shapes(LatestDeck') = expectedBlocks(log')
     /\ SavedSinceClear'
          => /\ shapes(cards') = expectedBlocks(log')
             /\ storage' = JSONstringify(cards')]_vars

\* a read that was in flight at a confirmed clear of a non-empty Deck has
\* completed, the clear not rendered yet
C28_Witness ==
  /\ op = "readerOnload"
  /\ cards # <<>>
  /\ Len(updates) = 2 /\ updates[1] = [op |-> "set", value |-> <<>>]
  /\ updates[2].op = "file"
  /\ Len(log) = 1
  /\ shapes(LatestDeck) = expectedBlock(log[1])

\* the block of such a read is rendered and saved, the file read before the
\* clear being gone
C28_WitnessSaved ==
  /\ SavedSinceClear /\ op = "SaveEffect"
  /\ started = 2 /\ inflight = {}
  /\ Len(log) = 1 /\ log[1].text = FileE.text
  /\ cards[1].id.r = 2
  /\ storage = JSONstringify(cards)

\* the entries of the Deck that no successful write has stored
InDeck(d, e) == \E i \in DOMAIN d : d[i] = e

Unsaved(d) == {i \in DOMAIN d : ~InDeck(savedDeck, d[i])}

\* C29: durability heals itself. When the save effect of a render runs
\* without a storage failure after the save effect before it failed, the
\* stored snapshot is the whole rendered Deck, entry by entry in order, the
\* entries that no earlier write had stored included; it is no snapshot at
\* all when the Deck is empty.
C29_SelfHealing ==
  [][(~writeOk /\ op' = "SaveEffect")
       => /\ cards' = cards
          /\ storedDeck(storage') = cards
          /\ cards # <<>> =>
               /\ storage' = JSONstringify(cards)
               /\ \A i \in Unsaved(cards) : InDeck(JSONparse(storage'), cards[i])
          /\ cards = <<>> => storage' = NoItem]_vars

\* the write for the first block failed and the write for the second block
\* has stored both
C29_Witness ==
  /\ op = "SaveEffect" /\ writeOk
  /\ batch = 1 /\ Len(log) = 2 /\ NumSeps(cards) = 2
  /\ baseDeck = <<>>
  /\ storage = JSONstringify(cards)
  /\ savedDeck = cards

\* C30: the stored snapshot is never an empty sequence. In every state of
\* the processes that follow a start from absent storage, storage holds no
\* item, or the JSON text of an array with at least one entry, each a
\* Separator or a Card.
C30_NoEmptySnapshot ==
  \/ storage = NoItem
  \/ /\ storage.kind = "array"
     /\ Len(storage.items) >= 1
     /\ \A i \in DOMAIN storage.items :
          JSONparse(storage)[i].type \in {"separator", "card"}

\* the save effect of a render that applied a confirmed clear has run, with
\* a read still in flight
C30_Witness ==
  /\ op = "SaveEffect" /\ cards = <<>> /\ storage = NoItem
  /\ touched /\ started = 2 /\ Cardinality(inflight) = 1
  /\ batch = 1

\* the position of the last Separator before position i of a Deck, 0 if none
sepBefore(d, i) ==
  LET seps == {j \in 1..(i - 1) : d[j].type = "separator"}
  IN IF seps = {} THEN 0 ELSE CHOOSE j \in seps : \A k \in seps : k <= j

\* a Deck of blocks: it is empty or starts with a Separator, and every Card
\* comes after a Separator, the nearest of which has the name of the source
\* the id of the Card was made from, the Card being at the place its id
\* gives it in the block
DeckOfBlocks(d) ==
  /\ d # <<>> => d[1].type = "separator"
  /\ \A i \in DOMAIN d :
       d[i].type = "card"
         => LET s == sepBefore(d, i)
            IN /\ s >= 1
               /\ d[s].title = d[i].id.name
               /\ d[i].id.idx = i - s - 1

\* C31: every Card has a Separator before it. In every state reached from
\* absent storage by ingestions, clears, stops and starts, the rendered
\* Deck, the Deck the next render gives and the Deck a start would
\* rehydrate from storage are each empty or start with a Separator, and each
\* Card in them follows the Separator of its own source.
C31_SeparatorBeforeCards ==
  LET latest == LatestDeck
      stored == storedDeck(storage)
  IN /\ DeckOfBlocks(cards)
     /\ DeckOfBlocks(latest)
     /\ DeckOfBlocks(stored)

\* a Deck of two blocks with three Cards is rendered again after a restart
C31_Witness ==
  /\ phase = "ready" /\ ~touched /\ updates = <<>>
  /\ baseDeck # <<>> /\ cards = baseDeck
  /\ NumSeps(cards) = 2 /\ NumCards(cards) >= 3
  /\ cards[2].type = "card"

====
